---- MODULE Spec2Model ----
(***************************************************************************)
(* A model of the LLC4320 data server: the lat/lon region translation and  *)
(* single-timestep read shared by server/data_service.py and               *)
(* scripts/loading_data.py, the DataService caches (dataset handles and    *)
(* the coordinate grid) and the Flask routes of server/app.py.             *)
(*                                                                         *)
(* numpy arrays are records [shape, flat]: the shape tuple and the         *)
(* row-major buffer.  Python lists are tuples, Python str values that the  *)
(* code inspects character by character (field names, query-string values) *)
(* are tuples of one-character strings.  Coordinates are whole degrees.    *)
(***************************************************************************)
EXTENDS Integers, Sequences, FiniteSets, TLC

VARIABLES
  latlon_file,    \* the coordinate file on disk (self.latlon_file)
  _lat_center,    \* DataService._lat_center
  _lon_center,    \* DataService._lon_center
  _datasets,      \* DataService._datasets: normalized field name -> handle
  opened,         \* number of dataset handles constructed so far
  open_calls,     \* per normalized field name, invocations of ovp.LoadDataset
  file_reads,     \* invocations of xr.open_dataset on the coordinate file
  extraction,     \* outcome of the extraction routine in the latest call
  response,       \* the latest HTTP response
  last_slice,     \* the latest successful answer of /api/data/slice
  nreq,           \* number of requests served
  loader,         \* the run of scripts/loading_data.py: position and locals
  threads         \* the requests inside DataService._get_dataset at once

vars == <<latlon_file, _lat_center, _lon_center, _datasets, opened,
          open_calls, file_reads, extraction, response, last_slice, nreq,
          loader, threads>>

None == "None"

(***************************************************************************)
(* Bounds of the model.                                                    *)
(***************************************************************************)
GridRows == 3
GridCols == 3
MaxCoord == 4
MaxRequests == 2
\* requests inside the handle lookup at once, and the calls they make in all
MaxThreads == 2
MaxCalls == 3

(***************************************************************************)
(* numpy arrays.                                                           *)
(***************************************************************************)
Max(a, b) == IF a >= b THEN a ELSE b
Min(a, b) == IF a <= b THEN a ELSE b

Range(s) == {s[i] : i \in DOMAIN s}

\* the indices along an axis of length n
Axis(n) == 0..(n - 1)

\* a 2D array of shape (h, w) holding f[y, x] at row y, column x
Array2(h, w, f) ==
  [shape |-> <<h, w>>,
   flat  |-> [i \in 1..(h * w) |-> f[(i - 1) \div w, (i - 1) % w]]]

\* a[y, x] of a 2D array
At(a, y, x) == a.flat[y * a.shape[2] + x + 1]

\* Python's clamping of a slice bound i on an axis of length n
SliceBound(i, n) == IF i < 0 THEN Max(i + n, 0) ELSE Min(i, n)

\* a[y0:y1, x0:x1] of a 2D array
Slice2(a, y0, y1, x0, x1) ==
  LET ylo == SliceBound(y0, a.shape[1])
      yhi == SliceBound(y1, a.shape[1])
      xlo == SliceBound(x0, a.shape[2])
      xhi == SliceBound(x1, a.shape[2])
      h   == Max(yhi - ylo, 0)
      w   == Max(xhi - xlo, 0)
  IN  Array2(h, w, [y \in Axis(h), x \in Axis(w) |-> At(a, ylo + y, xlo + x)])

\* numpy's min() and max() of a non-empty 1D integer array
SeqMin(s) == CHOOSE m \in Range(s) : \A v \in Range(s) : m <= v
SeqMax(s) == CHOOSE m \in Range(s) : \A v \in Range(s) : m >= v

(***************************************************************************)
(* The region translation of _extract_data_by_latlon_range.                *)
(***************************************************************************)
\* the mask's variant that tests the latitude alone
MaskLatOnly(lat_center, lon_center, lat_range, lon_range) ==
  Array2(lat_center.shape[1], lat_center.shape[2],
         [y \in Axis(lat_center.shape[1]), x \in Axis(lat_center.shape[2]) |->
            /\ At(lat_center, y, x) >= lat_range[1]
            /\ At(lat_center, y, x) <= lat_range[2]])

\* mask = (lat >= lat_range[0]) & (lat <= lat_range[1])
\*      & (lon >= lon_range[0]) & (lon <= lon_range[1])
Mask(lat_center, lon_center, lat_range, lon_range) ==
  Array2(lat_center.shape[1], lat_center.shape[2],
         [y \in Axis(lat_center.shape[1]), x \in Axis(lat_center.shape[2]) |->
            /\ At(lat_center, y, x) >= lat_range[1]
            /\ At(lat_center, y, x) <= lat_range[2]
            /\ At(lon_center, y, x) >= lon_range[1]
            /\ At(lon_center, y, x) <= lon_range[2]])

\* y_indices, x_indices = np.where(mask): the row and the column index of
\* every True cell, in row-major order
Where(mask) ==
  LET w    == mask.shape[2]
      hits == SelectSeq([i \in 1..Len(mask.flat) |-> i],
                        LAMBDA i : mask.flat[i])
  IN  [y_indices |-> [k \in 1..Len(hits) |-> (hits[k] - 1) \div w],
       x_indices |-> [k \in 1..Len(hits) |-> (hits[k] - 1) % w]]

\* the index box with the upper bounds left inclusive
IndexBoxInclusive(y_indices, x_indices) ==
  [x_min |-> SeqMin(x_indices), x_max |-> SeqMax(x_indices),
   y_min |-> SeqMin(y_indices), y_max |-> SeqMax(y_indices)]

\* the index box with the rows taken from the top of the grid
IndexBoxFromTop(y_indices, x_indices) ==
  [x_min |-> SeqMin(x_indices), x_max |-> SeqMax(x_indices) + 1,
   y_min |-> 0,                 y_max |-> SeqMax(y_indices) + 1]

\* x_min, x_max, y_min, y_max of the matching cells, upper bounds exclusive
IndexBox(y_indices, x_indices) ==
  [x_min |-> SeqMin(x_indices), x_max |-> SeqMax(x_indices) + 1,
   y_min |-> SeqMin(y_indices), y_max |-> SeqMax(y_indices) + 1]

(***************************************************************************)
(* Python exceptions: the type, the message parts and the __cause__.       *)
(***************************************************************************)
Exc(type, msg, cause) == [type |-> type, msg |-> msg, cause |-> cause]

\* no exception (and the __cause__ of an exception raised without one)
NoExc == [type |-> None]

\* the classes caught by "except (ValueError, TypeError)" in the routes
IsValueOrTypeError(e) == e.type \in {"ValueError", "TypeError"}

(***************************************************************************)
(* The remote store behind a dataset handle.  A handle is [id, url]; the   *)
(* store is a fixed float32 volume per URL, timestep and quality.  A read  *)
(* either raises or returns the requested block, shaped (z, y, x) or       *)
(* (time, z, y, x) with a single timestep.                                 *)
(***************************************************************************)
ReadExceptionTypes == {"ValueError", "TypeError", "OSError"}

ReadOutcomes ==
  {[raises |-> None, rank |-> r] : r \in {3, 4}}
    \cup {[raises |-> t, rank |-> 0] : t \in ReadExceptionTypes}

SALT_URL == "https://nsdf-climate1-origin.nationalresearchplatform.org:50098/nasa/nsdf/climate1/llc4320/idx/salt/salt_llc4320_x_y_depth.idx"
THETA_URL == "https://nsdf-climate1-origin.nationalresearchplatform.org:50098/nasa/nsdf/climate1/llc4320/idx/theta/theta_llc4320_x_y_depth.idx"
W_URL == "https://nsdf-climate1-origin.nationalresearchplatform.org:50098/nasa/nsdf/climate1/llc4320/idx/w/w_llc4320_x_y_depth.idx"

\* the three remote volumes hold different values
UrlSeed(url) ==
  CASE url = SALT_URL -> 1 [] url = THETA_URL -> 2 [] url = W_URL -> 3

StoredValue(url, time, z, y, x, quality) ==
  (UrlSeed(url) + 2 * time + 3 * z + 5 * y + 7 * x + 11 * quality) % 17

Product(shape) ==
  LET RECURSIVE P(_)
      P(k) == IF k > Len(shape) THEN 1 ELSE shape[k] * P(k + 1)
  IN  P(1)

\* what db.db.read(time, x, y, z, quality) returns when it does not raise
ReadData(db, args, rank) ==
  LET nz == args.z[2] - args.z[1]
      ny == args.y[2] - args.y[1]
      nx == args.x[2] - args.x[1]
      block == [i \in 1..(nz * ny * nx) |->
                  StoredValue(db.url, args.time,
                              args.z[1] + ((i - 1) \div (ny * nx)),
                              args.y[1] + (((i - 1) \div nx) % ny),
                              args.x[1] + ((i - 1) % nx),
                              args.quality)]
  IN  [shape |-> IF rank = 4 THEN <<1, nz, ny, nx>> ELSE <<nz, ny, nx>>,
       flat  |-> block]

\* a[0]: the first entry along the leading axis
Index0(a) ==
  [shape |-> Tail(a.shape),
   flat  |-> SubSeq(a.flat, 1, Product(Tail(a.shape)))]

(***************************************************************************)
(* DataService._extract_data_by_latlon_range (and the identical            *)
(* extract_data_by_latlon_range of the batch loader).  `outcome` is what   *)
(* the external read does if it is reached.  The result records the index  *)
(* box, the subgrids, the reads issued and the exception raised, if any.   *)
(***************************************************************************)
\* placeholders of a call that raised before the value existed
NoBox == [x_min |-> -1, x_max |-> -1, y_min |-> -1, y_max |-> -1]
NoArray == [shape |-> << >>, flat |-> << >>]

\* the routine's read failure handling with the cause re-raised unwrapped
WrapReadFailureBare(timestep, cause) == cause

\* raise RuntimeError(f"Failed to read data at timestep {timestep}: {e}") from e
WrapReadFailure(timestep, cause) ==
  Exc("RuntimeError",
      <<"Failed to read data at timestep", timestep, cause.msg>>, cause)

_extract_data_by_latlon_range(db, lat_center, lon_center, lat_range, lon_range, z_range, quality, timestep, outcome) ==
  LET mask == Mask(lat_center, lon_center, lat_range, lon_range)
      idx  == Where(mask)
      call == [called |-> TRUE, lat_center |-> lat_center,
               lon_center |-> lon_center, lat_range |-> lat_range,
               lon_range |-> lon_range, z_range |-> z_range,
               quality |-> quality, timestep |-> timestep]
  IN  IF Len(idx.x_indices) = 0 \/ Len(idx.y_indices) = 0
      THEN [call |-> call, box |-> NoBox, lat |-> NoArray, lon |-> NoArray,
            reads |-> <<>>, data |-> NoArray,
            raised |-> Exc("ValueError",
                           <<"No data found in the given lat/lon range.">>,
                           NoExc)]
      ELSE
        LET b    == IndexBox(idx.y_indices, idx.x_indices)
            lat  == Slice2(lat_center, b.y_min, b.y_max, b.x_min, b.x_max)
            lon  == Slice2(lon_center, b.y_min, b.y_max, b.x_min, b.x_max)
            args == [time |-> timestep, x |-> <<b.x_min, b.x_max>>,
                     y |-> <<b.y_min, b.y_max>>, z |-> z_range,
                     quality |-> quality]
            read == [db |-> db, args |-> args]
        IN  IF outcome.raises # None
            THEN [call |-> call, box |-> b, lat |-> lat, lon |-> lon,
                  reads |-> <<read>>, data |-> NoArray,
                  raised |-> WrapReadFailure(
                               timestep,
                               Exc(outcome.raises, <<"read failed">>, NoExc))]
            ELSE [call |-> call, box |-> b, lat |-> lat, lon |-> lon,
                  reads |-> <<read>>,
                  data |-> ReadData(db, args, outcome.rank),
                  raised |-> NoExc]

NotCalled ==
  [call |-> [called |-> FALSE], box |-> NoBox, lat |-> NoArray,
   lon |-> NoArray, reads |-> <<>>, data |-> NoArray, raised |-> NoExc]

(***************************************************************************)
(* Python str values as tuples of characters.                              *)
(***************************************************************************)
UpperLetters ==
  <<"A", "B", "C", "D", "E", "F", "G", "H", "I", "J", "K", "L", "M",
    "N", "O", "P", "Q", "R", "S", "T", "U", "V", "W", "X", "Y", "Z">>
LowerLetters ==
  <<"a", "b", "c", "d", "e", "f", "g", "h", "i", "j", "k", "l", "m",
    "n", "o", "p", "q", "r", "s", "t", "u", "v", "w", "x", "y", "z">>
Digits == <<"0", "1", "2", "3", "4", "5", "6", "7", "8", "9">>

IndexOf(c, alphabet) == CHOOSE k \in DOMAIN alphabet : alphabet[k] = c

\* str.lower()
Lower(s) ==
  [i \in DOMAIN s |->
     IF s[i] \in Range(UpperLetters)
     THEN LowerLetters[IndexOf(s[i], UpperLetters)]
     ELSE s[i]]

(***************************************************************************)
(* FIELD_URLS.                                                             *)
(***************************************************************************)
salinity == <<"s", "a", "l", "i", "n", "i", "t", "y">>
temperature == <<"t", "e", "m", "p", "e", "r", "a", "t", "u", "r", "e">>
vertical_velocity ==
  <<"v", "e", "r", "t", "i", "c", "a", "l", "_",
    "v", "e", "l", "o", "c", "i", "t", "y">>
salt == <<"s", "a", "l", "t">>
theta == <<"t", "h", "e", "t", "a">>
w_key == <<"w">>

\* the table with the alias "salt" bound to another dataset
FIELD_URLS_SaltElsewhere ==
  (salinity :> SALT_URL) @@ (temperature :> THETA_URL)
    @@ (vertical_velocity :> W_URL) @@ (salt :> THETA_URL)
    @@ (theta :> THETA_URL) @@ (w_key :> W_URL)

\* FIELD_URLS: canonical names and aliases
FIELD_URLS ==
  (salinity :> SALT_URL) @@ (temperature :> THETA_URL)
    @@ (vertical_velocity :> W_URL) @@ (salt :> SALT_URL)
    @@ (theta :> THETA_URL) @@ (w_key :> W_URL)

\* list(FIELD_URLS.keys()), in insertion order
FieldKeys == <<salinity, temperature, vertical_velocity, salt, theta, w_key>>

(***************************************************************************)
(* Query-string values and their conversion.  request.args.get(name) is    *)
(* Missing when the parameter is absent, else Text(chars).  The texts of   *)
(* the model are optionally signed digit strings, which int() and float()  *)
(* read alike, and texts that both refuse.                                 *)
(***************************************************************************)
Missing == [given |-> FALSE, text |-> << >>]
Text(chars) == [given |-> TRUE, text |-> chars]

\* request.args.get(name, default) when the default is a str
StrOr(arg, default) == IF arg.given THEN arg.text ELSE default

\* request.args.get(name, default) when the default is a number
NumberOr(arg, default) ==
  IF arg.given THEN arg ELSE [given |-> FALSE, text |-> << >>, number |-> default]

IsDigits(s) == Len(s) > 0 /\ \A i \in DOMAIN s : s[i] \in Range(Digits)

DigitsValue(s) ==
  LET RECURSIVE V(_)
      V(k) == IF k = 0 THEN 0
              ELSE 10 * V(k - 1) + (IndexOf(s[k], Digits) - 1)
  IN  V(Len(s))

\* the literal's value, or the ValueError of int()/float() on a str
ParseLiteral(s, what) ==
  LET signed == Len(s) > 0 /\ s[1] \in {"+", "-"}
      body   == IF signed THEN Tail(s) ELSE s
  IN  IF IsDigits(body)
      THEN [raised |-> NoExc,
            value |-> IF signed /\ s[1] = "-" THEN 0 - DigitsValue(body)
                      ELSE DigitsValue(body)]
      ELSE [raised |-> Exc("ValueError", <<what, s>>, NoExc), value |-> 0]

\* float() that reads a missing parameter as 0
PyFloatLenient(arg) ==
  IF ~arg.given
  THEN [raised |-> NoExc, value |-> 0]
  ELSE ParseLiteral(arg.text, "could not convert string to float:")

\* float(request.args.get(name)): None raises TypeError
PyFloat(arg) ==
  IF ~arg.given
  THEN [raised |-> Exc("TypeError",
                       <<"float() argument must be a string or a real number, not 'NoneType'">>,
                       NoExc),
        value |-> 0]
  ELSE ParseLiteral(arg.text, "could not convert string to float:")

\* int(request.args.get(name, default)) for the result of NumberOr
PyInt(arg) ==
  IF ~arg.given
  THEN [raised |-> NoExc, value |-> arg.number]
  ELSE ParseLiteral(arg.text, "invalid literal for int() with base 10:")

(***************************************************************************)
(* Coordinate files: the "latitude" and "longitude" variables of           *)
(* llc4320_latlon.nc.  Three grids of GridRows x GridCols cells: a         *)
(* rectilinear one, one rotated by 45 degrees (curvilinear, as the LLC     *)
(* faces are) and one whose longitude wraps around.                        *)
(***************************************************************************)
GridCells(f) == Array2(GridRows, GridCols, f)

RectilinearGrid ==
  [latitude  |-> GridCells([y \in Axis(GridRows), x \in Axis(GridCols) |-> y]),
   longitude |-> GridCells([y \in Axis(GridRows), x \in Axis(GridCols) |-> x])]

RotatedGrid ==
  [latitude  |-> GridCells([y \in Axis(GridRows), x \in Axis(GridCols) |->
                             y + x]),
   longitude |-> GridCells([y \in Axis(GridRows), x \in Axis(GridCols) |->
                             x + (GridRows - 1 - y)])]

WrappedGrid ==
  [latitude  |-> GridCells([y \in Axis(GridRows), x \in Axis(GridCols) |-> y]),
   longitude |-> GridCells([y \in Axis(GridRows), x \in Axis(GridCols) |->
                             (x + 1) % GridCols])]

Grids == {RectilinearGrid, RotatedGrid, WrappedGrid}

\* the boxes a caller may ask for: whole degrees, inverted boxes included
Ranges == {<<lo, hi>> : lo \in 0..MaxCoord, hi \in 0..MaxCoord}

(***************************************************************************)
(* The DataService after __init__.                                         *)
(***************************************************************************)
NoResponse == [route |-> None]
\* the batch loader not run, no request inside the handle lookup
NotStarted == [pc |-> "not started"]
NoThreads == << >>
NoSlice == [recorded |-> FALSE]

ServiceConstructed ==
  /\ _lat_center = NoArray
  /\ _lon_center = NoArray
  /\ _datasets = << >>
  /\ opened = 0
  /\ open_calls = << >>
  /\ file_reads = 0
  /\ extraction = NotCalled
  /\ response = NoResponse
  /\ last_slice = NoSlice
  /\ nreq = 0
  /\ loader = NotStarted
  /\ threads = NoThreads

(***************************************************************************)
(* SpecRegion: the extraction routine called directly, as the batch loader *)
(* calls it, on a loaded grid with one dataset handle, for one box.        *)
(***************************************************************************)
LoaderHandle == [id |-> 1, url |-> SALT_URL]

InitRegion ==
  /\ latlon_file \in {[exists |-> TRUE, ds |-> g] : g \in Grids}
  /\ _lat_center = latlon_file.ds.latitude
  /\ _lon_center = latlon_file.ds.longitude
  /\ _datasets = << >>
  /\ opened = 1
  /\ open_calls = << >>
  /\ file_reads = 1
  /\ extraction = NotCalled
  /\ response = NoResponse
  /\ last_slice = NoSlice
  /\ nreq = 0
  /\ loader = NotStarted
  /\ threads = NoThreads

ExtractRegion ==
  /\ ~extraction.call.called
  /\ \E lat_range \in Ranges, lon_range \in Ranges, outcome \in ReadOutcomes :
       extraction' = _extract_data_by_latlon_range(
                       LoaderHandle, _lat_center, _lon_center,
                       lat_range, lon_range, <<0, 1>>, -12, 0, outcome)
  /\ UNCHANGED <<latlon_file, _lat_center, _lon_center, _datasets, opened,
                 open_calls, file_reads, response, last_slice, nreq,
                 loader, threads>>

NextRegion == ExtractRegion

SpecRegion == InitRegion /\ [][NextRegion]_vars

(***************************************************************************)
(* Vocabulary of the region claims, stated on the grid itself.             *)
(***************************************************************************)
Cells(a) == {<<y, x>> : y \in 0..(a.shape[1] - 1), x \in 0..(a.shape[2] - 1)}

InRange(v, range) == range[1] <= v /\ v <= range[2]

\* the cells of the grid whose lat and lon both lie in the requested box
Matching(e) ==
  {c \in Cells(e.call.lat_center) :
     /\ InRange(At(e.call.lat_center, c[1], c[2]), e.call.lat_range)
     /\ InRange(At(e.call.lon_center, c[1], c[2]), e.call.lon_range)}

Values(a) == Range(a.flat)

\* the box lies strictly inside the span of the grid
StrictlyInside(e) ==
  /\ e.call.lat_range[1] <= e.call.lat_range[2]
  /\ e.call.lon_range[1] <= e.call.lon_range[2]
  /\ \E v \in Values(e.call.lat_center) : v < e.call.lat_range[1]
  /\ \E v \in Values(e.call.lat_center) : v > e.call.lat_range[2]
  /\ \E v \in Values(e.call.lon_center) : v < e.call.lon_range[1]
  /\ \E v \in Values(e.call.lon_center) : v > e.call.lon_range[2]

\* latitude depends on the row alone and longitude on the column alone,
\* each monotone along its axis
RectilinearMonotone(lat, lon) ==
  /\ \A c \in Cells(lat) : At(lat, c[1], c[2]) = At(lat, c[1], 0)
  /\ \A c \in Cells(lon) : At(lon, c[1], c[2]) = At(lon, 0, c[2])
  /\ \/ \A c, d \in Cells(lat) :
          c[1] <= d[1] => At(lat, c[1], 0) <= At(lat, d[1], 0)
     \/ \A c, d \in Cells(lat) :
          c[1] <= d[1] => At(lat, c[1], 0) >= At(lat, d[1], 0)
  /\ \/ \A c, d \in Cells(lon) :
          c[2] <= d[2] => At(lon, 0, c[2]) <= At(lon, 0, d[2])
     \/ \A c, d \in Cells(lon) :
          c[2] <= d[2] => At(lon, 0, c[2]) >= At(lon, 0, d[2])

\* every cell of the returned lat/lon subgrid lies in the requested box
SubgridInBox(e) ==
  /\ \A i \in DOMAIN e.lat.flat : InRange(e.lat.flat[i], e.call.lat_range)
  /\ \A i \in DOMAIN e.lon.flat : InRange(e.lon.flat[i], e.call.lon_range)

\* C1: whenever at least one cell matches the box, the translation yields
\* the minimal enclosing half-open rectangle: every matching cell lies in
\* [y_min, y_max) x [x_min, x_max), and the first and last row and column of
\* the rectangle each hold a matching cell.
C1_MinimalRectangle ==
  (extraction.call.called /\ Matching(extraction) # {}) =>
    LET b == extraction.box
        M == Matching(extraction)
    IN  /\ b # NoBox
        /\ \A c \in M : /\ b.y_min <= c[1] /\ c[1] < b.y_max
                        /\ b.x_min <= c[2] /\ c[2] < b.x_max
        /\ \E c \in M : c[1] = b.y_min
        /\ \E c \in M : c[1] = b.y_max - 1
        /\ \E c \in M : c[2] = b.x_min
        /\ \E c \in M : c[2] = b.x_max - 1
        /\ extraction.lat.shape = <<b.y_max - b.y_min, b.x_max - b.x_min>>
        /\ extraction.lon.shape = <<b.y_max - b.y_min, b.x_max - b.x_min>>

\* a translation whose rectangle holds cells outside the box between the
\* matching ones
C1_Witness ==
  /\ extraction.call.called
  /\ extraction.box # NoBox
  /\ Cardinality(Matching(extraction)) >= 2
  /\ Cardinality(Matching(extraction)) <
       (extraction.box.y_max - extraction.box.y_min)
         * (extraction.box.x_max - extraction.box.x_min)

\* C2: a box that no cell satisfies makes the routine fail with the empty
\* region ValueError without any read, and no index box that is returned or
\* passed to a read is empty.
C2_EmptyRegionFails ==
  extraction.call.called =>
    /\ Matching(extraction) = {} =>
         /\ extraction.raised.type = "ValueError"
         /\ extraction.raised.msg = <<"No data found in the given lat/lon range.">>
         /\ extraction.reads = << >>
         /\ extraction.box = NoBox
    /\ extraction.box # NoBox =>
         /\ extraction.box.x_min < extraction.box.x_max
         /\ extraction.box.y_min < extraction.box.y_max
    /\ \A i \in DOMAIN extraction.reads :
         /\ extraction.reads[i].args.x[1] < extraction.reads[i].args.x[2]
         /\ extraction.reads[i].args.y[1] < extraction.reads[i].args.y[2]

\* an inverted box has been refused
C2_Witness ==
  /\ extraction.call.called
  /\ extraction.call.lat_range[1] > extraction.call.lat_range[2]
  /\ extraction.raised.type = "ValueError"
  /\ extraction.reads = << >>

\* C3 as stated: for a box strictly inside the grid's span every cell of the
\* returned subgrid lies in the box.
C3_SubgridInBoxAsStated ==
  (extraction.call.called /\ extraction.box # NoBox
     /\ StrictlyInside(extraction)) => SubgridInBox(extraction)

\* C3 amended: on a grid whose latitude depends on the row alone and whose
\* longitude depends on the column alone, both monotone, every cell of the
\* returned subgrid lies in the box, for every box that matches a cell.
C3_SubgridInBoxRectilinear ==
  (extraction.call.called /\ extraction.box # NoBox
     /\ RectilinearMonotone(extraction.call.lat_center,
                            extraction.call.lon_center))
    => SubgridInBox(extraction)

\* a subgrid of several rows and columns returned on the rectilinear grid
\* for a box strictly inside its span would need a larger grid; the witness
\* takes a box covering two rows and two columns
C3_Witness ==
  /\ extraction.call.called
  /\ extraction.box # NoBox
  /\ RectilinearMonotone(extraction.call.lat_center,
                         extraction.call.lon_center)
  /\ extraction.lat.shape[1] >= 2
  /\ extraction.lat.shape[2] >= 2
  /\ extraction.lat.shape # extraction.call.lat_center.shape

(***************************************************************************)
(* Serialization: ndarray.tolist(), ndarray.astype(float32).tobytes() and  *)
(* base64.b64encode().  The stored values are small non-negative whole     *)
(* numbers, which float32 holds exactly.                                   *)
(***************************************************************************)
RECURSIVE Nested(_, _)
Nested(shape, flat) ==
  IF Len(shape) = 0 THEN flat[1]
  ELSE IF Len(shape) = 1 THEN flat
  ELSE LET size == Product(Tail(shape))
       IN  [k \in 1..shape[1] |->
              Nested(Tail(shape), SubSeq(flat, (k - 1) * size + 1, k * size))]

\* a.tolist()
ToList(a) == Nested(a.shape, a.flat)

RECURSIVE Pow2(_)
Pow2(n) == IF n = 0 THEN 1 ELSE 2 * Pow2(n - 1)

\* the IEEE 754 binary32 pattern of a whole number 0 <= v < 2^24
Float32Bits(v) ==
  IF v = 0 THEN 0
  ELSE LET e == CHOOSE k \in 0..23 : Pow2(k) <= v /\ v < Pow2(k + 1)
       IN  (127 + e) * Pow2(23) + (v - Pow2(e)) * Pow2(23 - e)

\* the four bytes of a pattern, most significant first
BigEndian(bits) ==
  <<(bits \div 16777216) % 256, (bits \div 65536) % 256,
    (bits \div 256) % 256, bits % 256>>

\* the four bytes of a pattern, least significant first
LittleEndian(bits) ==
  <<bits % 256, (bits \div 256) % 256,
    (bits \div 65536) % 256, (bits \div 16777216) % 256>>

\* a.astype(np.float32).tobytes()
ToBytes(a) ==
  [i \in 1..(4 * Len(a.flat)) |->
     LittleEndian(Float32Bits(a.flat[((i - 1) \div 4) + 1]))[((i - 1) % 4) + 1]]

Base64Alphabet == UpperLetters \o LowerLetters \o Digits \o <<"+", "/">>

\* base64.b64encode(bytes).decode('utf-8')
B64Encode(bytes) ==
  LET n      == Len(bytes)
      groups == (n + 2) \div 3
      byte(i) == IF i <= n THEN bytes[i] ELSE 0
      word(g) == byte(3 * g - 2) * 65536 + byte(3 * g - 1) * 256 + byte(3 * g)
      char(g, j) ==
        IF 3 * g - 3 + j > n + 1 THEN "="
        ELSE Base64Alphabet[((word(g) \div Pow2(6 * (4 - j))) % 64) + 1]
  IN  [i \in 1..(4 * groups) |-> char(((i - 1) \div 4) + 1, ((i - 1) % 4) + 1)]

array == <<"a", "r", "r", "a", "y">>
base64 == <<"b", "a", "s", "e", "6", "4">>

\* the "data" entry of a response, by format_type
Serialize(a, format_type) ==
  IF format_type = base64
  THEN [format |-> "base64", dtype |-> "float32", shape |-> a.shape,
        data |-> B64Encode(ToBytes(a))]
  ELSE [format |-> "array", data |-> ToList(a)]

(***************************************************************************)
(* DataService.  `self` is the record of the instance attributes and of    *)
(* the counters of external calls; every method returns the instance as it *)
(* leaves it, the exception it raised (NoExc if none) and its result.      *)
(***************************************************************************)
Self ==
  [_lat_center |-> _lat_center, _lon_center |-> _lon_center,
   _datasets |-> _datasets, opened |-> opened, open_calls |-> open_calls,
   file_reads |-> file_reads]

IsNone(v) == v = NoArray

Count(f, k) == IF k \in DOMAIN f THEN f[k] ELSE 0

\* the guard of _load_coordinates taken as always true
CoordinatesMissingAlways(self) == TRUE

\* if self._lat_center is None or self._lon_center is None
CoordinatesMissing(self) ==
  IsNone(self._lat_center) \/ IsNone(self._lon_center)

KeyError(key) == Exc("KeyError", <<key>>, NoExc)

_load_coordinates(self, file) ==
  IF ~CoordinatesMissing(self) THEN [self |-> self, raised |-> NoExc]
  ELSE IF ~file.exists
  THEN [self |-> self,
        raised |-> Exc("FileNotFoundError",
                       <<"Coordinate file not found">>, NoExc)]
  ELSE
    LET s0 == [self EXCEPT !.file_reads = @ + 1]
    IN  IF "latitude" \notin DOMAIN file.ds
        THEN [self |-> s0, raised |-> KeyError("latitude")]
        ELSE
          LET s1 == [s0 EXCEPT !._lat_center = file.ds.latitude]
          IN  IF "longitude" \notin DOMAIN file.ds
              THEN [self |-> s1, raised |-> KeyError("longitude")]
              ELSE [self |-> [s1 EXCEPT !._lon_center = file.ds.longitude],
                    raised |-> NoExc]

NoHandle == [id |-> 0, url |-> None]

\* what ovp.LoadDataset(url) does: it returns a handle or raises
OpenOutcomes == {[raises |-> None], [raises |-> "OSError"]}

\* the cache assignment left out
CacheStoreDropped(datasets, field_lower, dataset) == datasets

\* self._datasets[field_lower] = dataset
CacheStore(datasets, field_lower, dataset) ==
  [k \in DOMAIN datasets \cup {field_lower} |->
     IF k = field_lower THEN dataset ELSE datasets[k]]

_get_dataset(self, field, open) ==
  LET field_lower == Lower(field)
  IN  IF field_lower \notin DOMAIN FIELD_URLS
      THEN [self |-> self, dataset |-> NoHandle,
            raised |-> Exc("ValueError",
                           <<"Unknown field:", field, "Available fields:",
                             FieldKeys>>, NoExc)]
      ELSE IF field_lower \in DOMAIN self._datasets
      THEN [self |-> self, dataset |-> self._datasets[field_lower],
            raised |-> NoExc]
      ELSE
        LET url == FIELD_URLS[field_lower]
            s0  == [self EXCEPT !.open_calls =
                      [k \in DOMAIN @ \cup {field_lower} |->
                         IF k = field_lower THEN Count(@, k) + 1 ELSE @[k]]]
            dataset == [id |-> self.opened + 1, url |-> url]
        IN  IF open.raises # None
            THEN [self |-> s0, dataset |-> NoHandle,
                  raised |-> Exc(open.raises, <<"LoadDataset failed">>, NoExc)]
            ELSE [self |-> [s0 EXCEPT !.opened = @ + 1,
                                      !._datasets =
                                        CacheStore(@, field_lower, dataset)],
                  dataset |-> dataset, raised |-> NoExc]

\* what the remote volume reports about itself: db.getLogicBox(),
\* db.getTimesteps() and db.getField().name
TotalTimesteps == 10312
DepthLevels == 90
LogicBox == <<<<0, 0, 0>>, <<GridCols, GridRows, DepthLevels>>>>
StoredFieldName(url) ==
  CASE url = SALT_URL -> salt [] url = THETA_URL -> theta
    [] url = W_URL -> w_key

NoResult == [field |-> None]

\* a failing method that also empties the handle cache
FailedClearsCache(self, raised, e) ==
  [self |-> [self EXCEPT !._datasets = << >>], raised |-> raised,
   result |-> NoResult, extraction |-> e]

Failed(self, raised, e) ==
  [self |-> self, raised |-> raised, result |-> NoResult, extraction |-> e]

\* get_metadata starting with self._load_coordinates(), as the slice and
\* timestep methods do
get_metadata_after_load(self, field, open) ==
  LET l == _load_coordinates(self, latlon_file)
      g == _get_dataset(l.self, field, open)
  IN  IF l.raised.type # None THEN Failed(l.self, l.raised, NotCalled)
      ELSE IF g.raised.type # None THEN Failed(g.self, g.raised, NotCalled)
      ELSE [self |-> g.self, raised |-> NoExc, extraction |-> NotCalled,
            result |-> NoResult]

get_metadata(self, field, open) ==
  LET g == _get_dataset(self, field, open)
  IN  IF g.raised.type # None THEN Failed(g.self, g.raised, NotCalled)
      ELSE [self |-> g.self, raised |-> NoExc, extraction |-> NotCalled,
            result |->
              [field |-> StoredFieldName(g.dataset.url),
               dimensions |-> [x |-> LogicBox[2][1], y |-> LogicBox[2][2],
                               z |-> LogicBox[2][3]],
               total_timesteps |-> TotalTimesteps,
               data_type |-> "float32",
               available_fields |-> FieldKeys]]

\* the depth range of a slice taken as the surface level whatever the level
SliceZRangeSurface(depth_level) == <<0, 1>>

\* z_range = [depth_level, depth_level + 1]
SliceZRange(depth_level) == <<depth_level, depth_level + 1>>

\* the 2D slice of the array a read returned
DataSlice(data) ==
  IF Len(data.shape) = 4 THEN Index0(Index0(data))
  ELSE IF Len(data.shape) = 3 THEN Index0(data)
  ELSE data

\* the array a read returned with the time axis removed
TimestepData(data) ==
  IF Len(data.shape) = 4 THEN Index0(data) ELSE data

get_data_slice(self, file, field, timestep, depth_level, lat_range, lon_range, quality, format_type, open, read) ==
  LET l == _load_coordinates(self, file)
  IN  IF l.raised.type # None THEN Failed(l.self, l.raised, NotCalled)
      ELSE
        LET g == _get_dataset(l.self, field, open)
        IN  IF g.raised.type # None THEN Failed(g.self, g.raised, NotCalled)
            ELSE
              LET z_range == SliceZRange(depth_level)
                  e == _extract_data_by_latlon_range(
                         g.dataset, g.self._lat_center, g.self._lon_center,
                         lat_range, lon_range, z_range, quality, timestep,
                         read)
                  data_slice == DataSlice(e.data)
              IN  IF e.raised.type # None THEN Failed(g.self, e.raised, e)
                  ELSE [self |-> g.self, raised |-> NoExc, extraction |-> e,
                        result |->
                          [field |-> field, timestep |-> timestep,
                           depth_level |-> depth_level,
                           data |-> Serialize(data_slice, format_type),
                           coordinates |-> [latitude |-> ToList(e.lat),
                                            longitude |-> ToList(e.lon)],
                           shape |-> data_slice.shape,
                           lat_range |-> lat_range, lon_range |-> lon_range,
                           quality |-> quality]]

get_timestep_data(self, file, field, timestep, lat_range, lon_range, z_range, quality, format_type, open, read) ==
  LET l == _load_coordinates(self, file)
  IN  IF l.raised.type # None THEN Failed(l.self, l.raised, NotCalled)
      ELSE
        LET g == _get_dataset(l.self, field, open)
        IN  IF g.raised.type # None THEN Failed(g.self, g.raised, NotCalled)
            ELSE
              LET e == _extract_data_by_latlon_range(
                         g.dataset, g.self._lat_center, g.self._lon_center,
                         lat_range, lon_range, z_range, quality, timestep,
                         read)
                  timestep_data == TimestepData(e.data)
              IN  IF e.raised.type # None THEN Failed(g.self, e.raised, e)
                  ELSE [self |-> g.self, raised |-> NoExc, extraction |-> e,
                        result |->
                          [field |-> field, timestep |-> timestep,
                           data |-> Serialize(timestep_data, format_type),
                           coordinates |-> [latitude |-> ToList(e.lat),
                                            longitude |-> ToList(e.lon)],
                           shape |-> timestep_data.shape,
                           lat_range |-> lat_range, lon_range |-> lon_range,
                           z_range |-> z_range, quality |-> quality]]

(***************************************************************************)
(* The Flask routes of server/app.py.  `args` is request.args: a record of *)
(* query-string values.  A route returns the instance as the request       *)
(* leaves it, the extraction it ran, the service methods it called and the *)
(* response: status, the "error" of the body or the result that is         *)
(* jsonify'd, and the class of the exception that reached the handler.     *)
(***************************************************************************)
\* the first exception raised by a sequence of conversions, NoExc if none
FirstRaised(conversions) ==
  LET bad == SelectSeq(conversions, LAMBDA c : c.raised.type # None)
  IN  IF Len(bad) = 0 THEN NoExc ELSE bad[1].raised

\* the except clauses with every exception answered as a server error
ErrorResponseAlways500(e) ==
  [status |-> 500, error |-> e.msg, result |-> NoResult, raised |-> e.type]

\* except (ValueError, TypeError): 400 "Invalid parameter: ..."
\* except Exception: 500
ErrorResponse(e) ==
  IF IsValueOrTypeError(e)
  THEN [status |-> 400, error |-> <<"Invalid parameter: ", e.msg>>,
        result |-> NoResult, raised |-> e.type]
  ELSE [status |-> 500, error |-> e.msg, result |-> NoResult,
        raised |-> e.type]

\* the except clauses of /api/metadata: except ValueError: 400,
\* except Exception: 500
ErrorResponseMetadata(e) ==
  IF e.type = "ValueError"
  THEN [status |-> 400, error |-> <<"Invalid parameter: ", e.msg>>,
        result |-> NoResult, raised |-> e.type]
  ELSE [status |-> 500, error |-> e.msg, result |-> NoResult,
        raised |-> e.type]

OkResponse(result) ==
  [status |-> 200, error |-> << >>, result |-> result, raised |-> None]

\* a request refused while its parameters were converted
Refused(self, e) ==
  [self |-> self, extraction |-> NotCalled, called |-> << >>,
   response |-> ErrorResponse(e)]

\* the outcome of a request that called the service method `name`
Answered(name, r, error_response) ==
  [self |-> r.self, extraction |-> r.extraction, called |-> <<name>>,
   response |-> IF r.raised.type # None THEN error_response
                ELSE OkResponse(r.result)]

\* GET /api/metadata
api_get_metadata(self, args, open) ==
  LET field == StrOr(args.field, salinity)
      r     == get_metadata(self, field, open)
  IN  Answered("get_metadata", r, ErrorResponseMetadata(r.raised))

\* the conversions of the parameters of GET /api/data/slice, in order
SliceParameters(args) ==
  [timestep    |-> PyInt(NumberOr(args.timestep, 0)),
   depth_level |-> PyInt(NumberOr(args.depth_level, 0)),
   quality     |-> PyInt(NumberOr(args.quality, -12)),
   lat_min     |-> PyFloat(args.lat_min),
   lat_max     |-> PyFloat(args.lat_max),
   lon_min     |-> PyFloat(args.lon_min),
   lon_max     |-> PyFloat(args.lon_max)]

SliceParametersRaised(args) ==
  LET p == SliceParameters(args)
  IN  FirstRaised(<<p.timestep, p.depth_level, p.quality,
                    p.lat_min, p.lat_max, p.lon_min, p.lon_max>>)

\* GET /api/data/slice
api_get_data_slice(self, file, args, open, read) ==
  LET field       == StrOr(args.field, salinity)
      p           == SliceParameters(args)
      format_type == StrOr(args.format, array)
      raised      == SliceParametersRaised(args)
  IN  IF raised.type # None THEN Refused(self, raised)
      ELSE
        LET r == get_data_slice(self, file, field, p.timestep.value,
                                p.depth_level.value,
                                <<p.lat_min.value, p.lat_max.value>>,
                                <<p.lon_min.value, p.lon_max.value>>,
                                p.quality.value, format_type, open, read)
        IN  Answered("get_data_slice", r, ErrorResponse(r.raised))

\* the conversions of the parameters of GET /api/data/timestep, in order
TimestepParameters(args) ==
  [timestep |-> PyInt(NumberOr(args.timestep, 0)),
   z_min    |-> PyInt(NumberOr(args.z_min, 0)),
   z_max    |-> PyInt(NumberOr(args.z_max, 1)),
   quality  |-> PyInt(NumberOr(args.quality, -12)),
   lat_min  |-> PyFloat(args.lat_min),
   lat_max  |-> PyFloat(args.lat_max),
   lon_min  |-> PyFloat(args.lon_min),
   lon_max  |-> PyFloat(args.lon_max)]

TimestepParametersRaised(args) ==
  LET p == TimestepParameters(args)
  IN  FirstRaised(<<p.timestep, p.z_min, p.z_max, p.quality,
                    p.lat_min, p.lat_max, p.lon_min, p.lon_max>>)

\* GET /api/data/timestep
api_get_timestep_data(self, file, args, open, read) ==
  LET field       == StrOr(args.field, salinity)
      p           == TimestepParameters(args)
      format_type == StrOr(args.format, array)
      raised      == TimestepParametersRaised(args)
  IN  IF raised.type # None THEN Refused(self, raised)
      ELSE
        LET r == get_timestep_data(self, file, field, p.timestep.value,
                                   <<p.lat_min.value, p.lat_max.value>>,
                                   <<p.lon_min.value, p.lon_max.value>>,
                                   <<p.z_min.value, p.z_max.value>>,
                                   p.quality.value, format_type, open, read)
        IN  Answered("get_timestep_data", r, ErrorResponse(r.raised))

\* the conversions of GET /api/coordinates: a range is converted only when
\* both of its bounds are given
CoordinatesParametersRaised(args) ==
  FirstRaised(
    (IF args.lat_min.given /\ args.lat_max.given
     THEN <<PyFloat(args.lat_min), PyFloat(args.lat_max)>> ELSE << >>)
    \o (IF args.lon_min.given /\ args.lon_max.given
        THEN <<PyFloat(args.lon_min), PyFloat(args.lon_max)>> ELSE << >>))

\* GET /api/coordinates: the class DataService defines no method
\* get_coordinates, so the attribute lookup raises AttributeError
api_get_coordinates(self, args) ==
  LET raised == CoordinatesParametersRaised(args)
  IN  IF raised.type # None THEN Refused(self, raised)
      ELSE [self |-> self, extraction |-> NotCalled, called |-> << >>,
            response |->
              ErrorResponse(
                Exc("AttributeError",
                    <<"'DataService' object has no attribute 'get_coordinates'">>,
                    NoExc))]

(***************************************************************************)
(* The requests of the model.                                              *)
(***************************************************************************)
FieldArgs ==
  {Missing, Text(salt), Text(<<"S", "a", "l", "t">>), Text(<<"x">>)}

\* a box that matches cells of every grid, one that matches none, an
\* inverted one, and the first with one bound missing or malformed
HitBox ==
  [lat_min |-> Text(<<"0">>), lat_max |-> Text(<<"1">>),
   lon_min |-> Text(<<"1">>), lon_max |-> Text(<<"2">>)]
EmptyBox ==
  [lat_min |-> Text(<<"-", "1">>), lat_max |-> Text(<<"-", "1">>),
   lon_min |-> Text(<<"1">>), lon_max |-> Text(<<"2">>)]
InvertedBox ==
  [lat_min |-> Text(<<"1">>), lat_max |-> Text(<<"0">>),
   lon_min |-> Text(<<"1">>), lon_max |-> Text(<<"2">>)]
BoxParameters == {"lat_min", "lat_max", "lon_min", "lon_max"}
BadBoxes ==
  {[HitBox EXCEPT ![p] = v] :
     p \in BoxParameters, v \in {Missing, Text(<<"x">>)}}

\* the optional parameters all left out, or all given
SliceDefaults ==
  [timestep |-> Missing, depth_level |-> Missing, quality |-> Missing,
   format |-> Missing]
SliceExplicit ==
  [timestep |-> Text(<<"1">>), depth_level |-> Text(<<"1">>),
   quality |-> Text(<<"-", "8">>), format |-> Text(base64)]
TimestepDefaults ==
  [timestep |-> Missing, z_min |-> Missing, z_max |-> Missing,
   quality |-> Missing, format |-> Missing]
TimestepExplicit ==
  [timestep |-> Text(<<"1">>), z_min |-> Text(<<"1">>),
   z_max |-> Text(<<"2">>), quality |-> Text(<<"-", "8">>),
   format |-> Text(base64)]
TimestepDeep == [TimestepExplicit EXCEPT !.z_min = Text(<<"0">>)]

\* every field with the matching and the empty box; the salinity default
\* with the inverted box, with the optional parameters given and with each
\* malformed box
SliceQueries ==
  {[field |-> f] @@ b @@ SliceDefaults :
     f \in FieldArgs, b \in {HitBox, EmptyBox}}
    \cup {[field |-> Missing] @@ b @@ SliceDefaults :
            b \in {InvertedBox} \cup BadBoxes}
    \cup {[field |-> f] @@ HitBox @@ SliceExplicit :
            f \in {Missing, Text(<<"x">>)}}
TimestepQueries ==
  {[field |-> f] @@ b @@ TimestepDefaults :
     f \in FieldArgs, b \in {HitBox, EmptyBox}}
    \cup {[field |-> Missing] @@ b @@ TimestepDefaults :
            b \in {InvertedBox} \cup BadBoxes}
    \cup {[field |-> f] @@ HitBox @@ o :
            f \in {Missing, Text(<<"x">>)},
            o \in {TimestepExplicit, TimestepDeep}}
MetadataQueries == {[field |-> f] : f \in FieldArgs}
NoBoxArgs ==
  [lat_min |-> Missing, lat_max |-> Missing,
   lon_min |-> Missing, lon_max |-> Missing]
CoordinatesQueries ==
  {NoBoxArgs, HitBox, [NoBoxArgs EXCEPT !.lat_min = Text(<<"0">>)],
   [HitBox EXCEPT !.lon_max = Text(<<"x">>)]}

\* the coordinate file: absent, or holding a grid
NoFile == [exists |-> FALSE, ds |-> << >>]
FileStates ==
  {NoFile, [exists |-> TRUE, ds |-> RectilinearGrid],
   [exists |-> TRUE, ds |-> RotatedGrid]}

(***************************************************************************)
(* Spec: the server answering requests one after the other.                *)
(***************************************************************************)
Init ==
  /\ latlon_file \in FileStates
  /\ ServiceConstructed

TotalOpenCalls(self) ==
  LET RECURSIVE Sum(_)
      Sum(S) == IF S = {} THEN 0
                ELSE LET k == CHOOSE k \in S : TRUE
                     IN  self.open_calls[k] + Sum(S \ {k})
  IN  Sum(DOMAIN self.open_calls)

\* the environment's choices when the external call is not reached
OpenReturns == [raises |-> None]
ReadReturns == [raises |-> None, rank |-> 3]

\* the outcomes the environment chooses among for the ovp.LoadDataset and
\* the db.db.read of a request: a choice exists only if the call is made.
\* `loaded` is the outcome of _load_coordinates, `got` that of _get_dataset.
OpenChoices(got) ==
  IF TotalOpenCalls(got.self) > TotalOpenCalls(Self)
  THEN OpenOutcomes ELSE {OpenReturns}

ReadChoices(loaded, got, lat_range, lon_range) ==
  IF /\ loaded.raised.type = None
     /\ got.raised.type = None
     /\ Len(Where(Mask(loaded.self._lat_center, loaded.self._lon_center,
                       lat_range, lon_range)).x_indices) > 0
  THEN ReadOutcomes ELSE {ReadReturns}

\* the box of a query whose parameters convert
LatRange(args) == <<PyFloat(args.lat_min).value, PyFloat(args.lat_max).value>>
LonRange(args) == <<PyFloat(args.lon_min).value, PyFloat(args.lon_max).value>>

\* the request is answered: the instance, the extraction and the response
\* are as the route left them
AnswerRequest(route, args, out) ==
  /\ _lat_center' = out.self._lat_center
  /\ _lon_center' = out.self._lon_center
  /\ _datasets' = out.self._datasets
  /\ opened' = out.self.opened
  /\ open_calls' = out.self.open_calls
  /\ file_reads' = out.self.file_reads
  /\ extraction' = out.extraction
  /\ response' =
       [route |-> route, args |-> args, called |-> out.called,
        opens |-> TotalOpenCalls(out.self) - TotalOpenCalls(Self),
        file_opened |-> out.self.file_reads - file_reads]
         @@ out.response
  /\ nreq' = nreq + 1
  /\ UNCHANGED <<latlon_file, loader, threads>>

\* the record kept of a slice request that was answered
SliceRecord(args, out) ==
  [recorded |-> TRUE, args |-> args, result |-> out.response.result,
   read |-> out.extraction.reads[1]]

\* the request is answered and the latest answered slice is kept
Serve(route, args, out) ==
  /\ AnswerRequest(route, args, out)
  /\ last_slice' =
       IF route = "/api/data/slice" /\ out.response.status = 200
       THEN SliceRecord(args, out)
       ELSE last_slice

GetMetadata ==
  /\ nreq < MaxRequests
  /\ \E args \in MetadataQueries :
       \E open \in OpenChoices(_get_dataset(Self, StrOr(args.field, salinity),
                                            OpenReturns)) :
         Serve("/api/metadata", args, api_get_metadata(Self, args, open))

GetDataSlice ==
  /\ nreq < MaxRequests
  /\ \E args \in SliceQueries :
       IF SliceParametersRaised(args).type # None
       THEN Serve("/api/data/slice", args,
                  api_get_data_slice(Self, latlon_file, args, OpenReturns,
                                     ReadReturns))
       ELSE
         LET loaded == _load_coordinates(Self, latlon_file)
             field  == StrOr(args.field, salinity)
         IN  \E open \in IF loaded.raised.type = None
                         THEN OpenChoices(_get_dataset(loaded.self, field,
                                                       OpenReturns))
                         ELSE {OpenReturns} :
               \E read \in ReadChoices(loaded,
                                       _get_dataset(loaded.self, field, open),
                                       LatRange(args), LonRange(args)) :
                 Serve("/api/data/slice", args,
                       api_get_data_slice(Self, latlon_file, args, open, read))

GetTimestepData ==
  /\ nreq < MaxRequests
  /\ \E args \in TimestepQueries :
       IF TimestepParametersRaised(args).type # None
       THEN Serve("/api/data/timestep", args,
                  api_get_timestep_data(Self, latlon_file, args, OpenReturns,
                                        ReadReturns))
       ELSE
         LET loaded == _load_coordinates(Self, latlon_file)
             field  == StrOr(args.field, salinity)
         IN  \E open \in IF loaded.raised.type = None
                         THEN OpenChoices(_get_dataset(loaded.self, field,
                                                       OpenReturns))
                         ELSE {OpenReturns} :
               \E read \in ReadChoices(loaded,
                                       _get_dataset(loaded.self, field, open),
                                       LatRange(args), LonRange(args)) :
                 Serve("/api/data/timestep", args,
                       api_get_timestep_data(Self, latlon_file, args, open,
                                             read))

GetCoordinates ==
  /\ nreq < MaxRequests
  /\ \E args \in CoordinatesQueries :
       Serve("/api/coordinates", args, api_get_coordinates(Self, args))

\* the coordinate file is downloaded, replaced or removed between requests
CoordinateFileChanges ==
  /\ latlon_file' \in FileStates \ {latlon_file}
  /\ UNCHANGED <<_lat_center, _lon_center, _datasets, opened, open_calls,
                 file_reads, extraction, response, last_slice, nreq,
                 loader, threads>>

Next ==
  \/ GetMetadata
  \/ GetDataSlice
  \/ GetTimestepData
  \/ GetCoordinates
  \/ CoordinateFileChanges

Spec == Init /\ [][Next]_vars

(***************************************************************************)
(* Vocabulary of the claims about the server.                              *)
(***************************************************************************)
MetadataRoute == "/api/metadata"
SliceRoute == "/api/data/slice"
TimestepRoute == "/api/data/timestep"
CoordinatesRoute == "/api/coordinates"

\* the step answers a request
Served == nreq' = nreq + 1

\* the normalized field name of the request last answered
RequestedName(r) == Lower(StrOr(r.args.field, salinity))

\* both coordinate slots hold a grid
GridLoaded(lat, lon) == ~IsNone(lat) /\ ~IsNone(lon)

\* a query value that is a decimal integer literal
IsNumber(arg) ==
  /\ arg.given
  /\ \/ IsDigits(arg.text)
     \/ Len(arg.text) > 1 /\ arg.text[1] = "-" /\ IsDigits(Tail(arg.text))

BoxGiven(args) ==
  \A p \in BoxParameters : IsNumber(args[p])

InvalidParameter(r) ==
  /\ r.status = 400
  /\ r.error[1] = "Invalid parameter: "

\* the entries of the handle cache stay as they are, and the open is not
\* invoked again for a name that has one
EntriesKept ==
  \A k \in DOMAIN _datasets :
    /\ k \in DOMAIN _datasets'
    /\ _datasets'[k] = _datasets[k]
    /\ open_calls'[k] = open_calls[k]

\* a request that reads does so through the cached handle of its name,
\* which is the handle that was cached before if there was one
HandleReused ==
  (Served /\ extraction'.reads # << >>) =>
    LET k == RequestedName(response')
    IN  /\ k \in DOMAIN _datasets'
        /\ extraction'.reads[1].db = _datasets'[k]
        /\ _datasets'[k].url = FIELD_URLS[k]
        /\ k \in DOMAIN _datasets => response'.opens = 0

\* C4 (as amended): in a sequential run the handle cache only grows: an
\* entry is never removed or replaced, a later request for the name, in any
\* letter case, reads through that same handle, and once a name has a
\* handle the external open is never invoked for it again.
C4_CacheOnlyGrows == [][EntriesKept /\ HandleReused]_vars

\* C4 as stated: the same, and the external open is invoked at most once
\* per normalized field name.
C4_OpenAtMostOncePerName ==
  [][/\ EntriesKept
     /\ HandleReused
     /\ \A k \in DOMAIN open_calls' : open_calls'[k] <= 1]_vars

\* a second request names the field of an earlier slice in another letter
\* case and reads through the handle that slice opened
C4_Witness ==
  /\ nreq = 2
  /\ last_slice.recorded
  /\ last_slice.args.field = Text(salt)
  /\ response.route = TimestepRoute
  /\ response.args.field = Text(<<"S", "a", "l", "t">>)
  /\ response.status = 200
  /\ response.opens = 0
  /\ extraction.reads[1].db = last_slice.read.db
  /\ DOMAIN _datasets = {salt}
  /\ open_calls[salt] = 1

UnknownFieldRequest ==
  /\ response.route \in {MetadataRoute, SliceRoute, TimestepRoute}
  /\ RequestedName(response) \notin DOMAIN FIELD_URLS
  /\ response.route # MetadataRoute => BoxGiven(response.args)

\* the answer to an unknown field: the service's ValueError as HTTP 400
\* "Invalid parameter", no handle opened and no read issued
UnknownFieldRefused ==
  /\ InvalidParameter(response)
  /\ response.raised = "ValueError"
  /\ response.error[2][1] = "Unknown field:"
  /\ response.opens = 0
  /\ extraction.reads = << >>

ReadRaised == extraction.reads # << >> /\ IsNone(extraction.data)

\* C7: whenever the external read raises, whatever the exception's type,
\* the extraction surfaces one RuntimeError that names the timestep and
\* carries the cause, a single read was issued, and the API answers 500.
C7_ReadFailureWrapped ==
  ReadRaised =>
    /\ extraction.raised.type = "RuntimeError"
    /\ extraction.raised.msg[1] = "Failed to read data at timestep"
    /\ extraction.raised.msg[2] = extraction.call.timestep
    /\ extraction.raised.cause.type \in ReadExceptionTypes
    /\ extraction.raised.msg[3] = extraction.raised.cause.msg
    /\ Len(extraction.reads) = 1
    /\ response.status = 500
    /\ response.raised = "RuntimeError"

\* the read of a slice request raised a ValueError
C7_Witness ==
  /\ ReadRaised
  /\ response.route = SliceRoute
  /\ extraction.raised.cause.type = "ValueError"
  /\ extraction.call.timestep = 1
  /\ response.status = 500

\* C8: a slice or timestep request with one of lat_min, lat_max, lon_min,
\* lon_max missing or not a number is answered HTTP 400 "Invalid
\* parameter" without a call of the data service: no coordinate load, no
\* open, no read, both caches unchanged.
C8_BadBoxRefused ==
  [][(/\ Served
      /\ response'.route \in {SliceRoute, TimestepRoute}
      /\ ~BoxGiven(response'.args)) =>
       /\ InvalidParameter(response')
       /\ response'.raised \in {"ValueError", "TypeError"}
       /\ response'.called = << >>
       /\ response'.opens = 0
       /\ response'.file_opened = 0
       /\ extraction' = NotCalled
       /\ UNCHANGED <<_lat_center, _lon_center, _datasets, opened,
                      open_calls, file_reads>>]_vars

\* a timestep request without lat_max is refused by a server that could
\* have served it: coordinate file present, nothing loaded yet
C8_Witness ==
  /\ response.route = TimestepRoute
  /\ ~response.args.lat_max.given
  /\ IsNumber(response.args.lat_min)
  /\ InvalidParameter(response)
  /\ response.raised = "TypeError"
  /\ response.called = << >>
  /\ latlon_file.exists
  /\ ~GridLoaded(_lat_center, _lon_center)
  /\ nreq = 1

\* C9 as stated: GET /api/coordinates, with no range or with both ranges
\* given as numbers, succeeds and returns the coordinate grid.
C9_GetCoordinatesSucceeds ==
  (/\ response.route = CoordinatesRoute
   /\ \/ response.args = NoBoxArgs
      \/ BoxGiven(response.args)) =>
    response.status = 200

\* the depth range of one level of the slice last answered
OneLevel(d) == <<d, d + 1>>

\* the timestep request last answered asks what the recorded slice asked,
\* with the z range of the slice's depth level, and both were answered
SameQuery ==
  /\ last_slice.recorded
  /\ response.route = TimestepRoute
  /\ response.status = 200
  /\ response.result.field = last_slice.result.field
  /\ response.result.timestep = last_slice.result.timestep
  /\ response.result.lat_range = last_slice.result.lat_range
  /\ response.result.lon_range = last_slice.result.lon_range
  /\ response.result.quality = last_slice.result.quality
  /\ response.result.z_range = OneLevel(last_slice.result.depth_level)
  /\ StrOr(response.args.format, array) = StrOr(last_slice.args.format, array)

\* the serialized values of the timestep answer are those of the slice:
\* the same bytes in base64, the same list under one more level of nesting
SameValues ==
  /\ response.result.data.format = last_slice.result.data.format
  /\ IF response.result.data.format = "base64"
     THEN response.result.data.data = last_slice.result.data.data
     ELSE response.result.data.data = <<last_slice.result.data.data>>

\* C10: get_data_slice with depth_level = d and get_timestep_data with
\* z_range = [d, d+1], otherwise the same query, pass the same arguments to
\* the external read and return the same values, the slice as (y, x) and
\* the timestep as (1, y, x).
C10_SliceIsOneLevelTimestep ==
  SameQuery =>
    /\ extraction.reads[1] = last_slice.read
    /\ extraction.reads[1].args.z = OneLevel(last_slice.result.depth_level)
    /\ SameValues
    /\ Len(last_slice.result.shape) = 2
    /\ response.result.shape = <<1>> \o last_slice.result.shape

\* a slice at depth level 1 followed by the timestep request for z 1..2
C10_Witness ==
  /\ SameQuery
  /\ last_slice.result.depth_level = 1
  /\ response.result.z_range = <<1, 2>>
  /\ response.result.timestep = 1
  /\ response.result.shape = <<1, 2, 2>>
  /\ SameValues

(***************************************************************************)
(* SpecAlias: slice requests that name every key of FIELD_URLS, in lower   *)
(* case and in another letter case, for one box.  The first slice answered *)
(* is kept in last_slice, to be compared with the answers that follow.     *)
(***************************************************************************)
FieldSpellings ==
  {salinity, <<"S", "a", "l", "i", "n", "i", "t", "y">>,
   salt, <<"S", "A", "L", "T">>,
   temperature, <<"T", "E", "M", "P", "E", "R", "A", "T", "U", "R", "E">>,
   theta, <<"T", "h", "e", "t", "a">>,
   vertical_velocity,
   <<"V", "e", "r", "t", "i", "c", "a", "l", "_", "V", "e", "l", "o", "c",
     "i", "t", "y">>,
   w_key, <<"W">>}

\* every spelling with the optional parameters left out, the spellings of
\* salinity and salt also with the optional parameters given
AliasQueries ==
  {[field |-> Text(f)] @@ HitBox @@ SliceDefaults : f \in FieldSpellings}
    \cup {[field |-> Text(f)] @@ HitBox @@ SliceExplicit :
            f \in {g \in FieldSpellings : Lower(g) \in {salinity, salt}}}

GetAliasSlice ==
  /\ nreq < MaxRequests
  /\ \E args \in AliasQueries :
       LET loaded == _load_coordinates(Self, latlon_file)
       IN  \E open \in IF loaded.raised.type = None
                       THEN OpenChoices(_get_dataset(loaded.self,
                                                     args.field.text,
                                                     OpenReturns))
                       ELSE {OpenReturns} :
             \E read \in ReadChoices(loaded,
                                     _get_dataset(loaded.self,
                                                  args.field.text, open),
                                     LatRange(args), LonRange(args)) :
               LET out == api_get_data_slice(Self, latlon_file, args, open,
                                             read)
               IN  /\ AnswerRequest("/api/data/slice", args, out)
                   /\ last_slice' =
                        IF ~last_slice.recorded /\ out.response.status = 200
                        THEN SliceRecord(args, out)
                        ELSE last_slice

NextAlias == GetAliasSlice

SpecAlias == Init /\ [][NextAlias]_vars

\* a canonical field name with its alias
AliasPairs ==
  {{salinity, salt}, {temperature, theta}, {vertical_velocity, w_key}}

\* two spellings that name the same field: an alias pair, or one name, in
\* any letter case
SameField(a, b) ==
  \E pair \in AliasPairs : {Lower(a), Lower(b)} \subseteq pair

\* the slice last answered asks what the first answered slice asked, under
\* another spelling of the field
AliasOfFirstSlice ==
  /\ last_slice.recorded
  /\ response.route = SliceRoute
  /\ response.status = 200
  /\ SameField(response.args.field.text, last_slice.args.field.text)
  /\ [response.args EXCEPT !.field = last_slice.args.field] = last_slice.args

\* C11: a canonical field name and its alias, in any letter case, with the
\* other parameters identical, resolve to the same dataset URL, issue a
\* read with identical arguments and return identical data.
C11_AliasEquivalence ==
  AliasOfFirstSlice =>
    /\ extraction.reads[1].db.url = last_slice.read.db.url
    /\ extraction.reads[1].args = last_slice.read.args
    /\ response.result.data = last_slice.result.data
    /\ response.result.shape = last_slice.result.shape
    /\ response.result.coordinates = last_slice.result.coordinates

\* "salinity" answered first, then "SALT" with the same parameters, each
\* through a handle of its own
C11_Witness ==
  /\ AliasOfFirstSlice
  /\ nreq = 2
  /\ last_slice.args.field = Text(salinity)
  /\ response.args.field = Text(<<"S", "A", "L", "T">>)
  /\ response.args.depth_level = Text(<<"1">>)
  /\ DOMAIN _datasets = {salinity, salt}
  /\ extraction.reads[1].db.id # last_slice.read.db.id
  /\ response.result.data = last_slice.result.data

(***************************************************************************)
(* SpecLoader: one run of scripts/loading_data.py.  `loader` holds the     *)
(* position of the script, its configuration, the locals of                *)
(* load_salinity_data, the invocations of the reader, the output files and *)
(* the exit code; `extraction` is the outcome of the latest call of        *)
(* extract_data_by_latlon_range.                                           *)
(***************************************************************************)
\* NUMBER_OF_TIME_STEPS, QUALITY, Z_RANGE
NUMBER_OF_TIME_STEPS == 2
QUALITY == -12
Z_RANGE == <<0, 1>>

\* LAT_RANGE and LON_RANGE: a region that matches cells of every grid, and
\* one that matches none
LoaderRegions ==
  {[lat_range |-> <<0, 1>>, lon_range |-> <<1, 2>>],
   [lat_range |-> <<-1, -1>>, lon_range |-> <<1, 2>>]}

\* the three files of save_data: absent, or left by an earlier run
Absent == [shape |-> << >>, flat |-> << >>]
Stale == [shape |-> <<1>>, flat |-> <<0>>]
OutputFiles == {"salinity_data.npy", "salinity_lat.npy", "salinity_lon.npy"}

Running == -1

LoaderStarted(region, before) ==
  [pc |-> "check_file", config |-> region,
   lat_center |-> NoArray, lon_center |-> NoArray, db |-> NoHandle,
   opens |-> 0, first_data |-> NoArray, lat |-> NoArray, lon |-> NoArray,
   expected_shape |-> << >>, t |-> 0, timesteps |-> << >>,
   invoked |-> << >>,
   data |-> NoArray, raised |-> NoExc, exit_code |-> Running,
   outputs |-> [f \in OutputFiles |-> before], written |-> << >>]

InitLoader ==
  /\ latlon_file \in FileStates
  /\ \E region \in LoaderRegions, before \in {Absent, Stale} :
       loader = LoaderStarted(region, before)
  /\ _lat_center = NoArray
  /\ _lon_center = NoArray
  /\ _datasets = << >>
  /\ opened = 0
  /\ open_calls = << >>
  /\ file_reads = 0
  /\ extraction = NotCalled
  /\ response = NoResponse
  /\ last_slice = NoSlice
  /\ nreq = 0
  /\ threads = NoThreads

\* the handler that lets a failed timestep pass and goes on with the next
SkipTimestep(l, raised) == [l EXCEPT !.t = @ + 1]

\* except Exception in the loop: print and raise; except Exception in
\* __main__: print and sys.exit(1)
ExitOnError(l, raised) ==
  [l EXCEPT !.pc = "exited", !.raised = raised, !.exit_code = 1]

\* np.stack(arrays, axis=0)
Stack(arrays) ==
  LET RECURSIVE Concat(_)
      Concat(k) == IF k = 0 THEN << >>
                   ELSE Concat(k - 1) \o arrays[k].flat
  IN  IF Len(arrays) = 0
      THEN [raised |-> Exc("ValueError",
                           <<"need at least one array to stack">>, NoExc),
            data |-> NoArray]
      ELSE IF \E k \in DOMAIN arrays : arrays[k].shape # arrays[1].shape
      THEN [raised |-> Exc("ValueError",
                           <<"all input arrays must have the same shape">>,
                           NoExc),
            data |-> NoArray]
      ELSE [raised |-> NoExc,
            data |-> [shape |-> <<Len(arrays)>> \o arrays[1].shape,
                      flat |-> Concat(Len(arrays))]]

\* the call of extract_data_by_latlon_range for timestep t, with the
\* outcome of its read
ExtractTimestep(l, t, outcome) ==
  _extract_data_by_latlon_range(l.db, l.lat_center, l.lon_center,
                                l.config.lat_range, l.config.lon_range,
                                Z_RANGE, QUALITY, t, outcome)

\* for t in range(NUMBER_OF_TIME_STEPS): the loop ends after the last t
LoopNext(l) ==
  IF l.pc = "loop" /\ l.t >= NUMBER_OF_TIME_STEPS
  THEN [l EXCEPT !.pc = "stack"] ELSE l

LoaderOnly ==
  UNCHANGED <<latlon_file, _lat_center, _lon_center, _datasets, opened,
              open_calls, file_reads, response, last_slice, nreq, threads>>

\* the check of LATLON_FILE and the load of the coordinate arrays
LoadCoordinateArrays ==
  /\ loader.pc = "check_file"
  /\ loader' =
       IF ~latlon_file.exists
       THEN ExitOnError(loader,
                        Exc("FileNotFoundError",
                            <<"Latitude/longitude file not found">>, NoExc))
       ELSE [loader EXCEPT !.lat_center = latlon_file.ds.latitude,
                           !.lon_center = latlon_file.ds.longitude,
                           !.pc = "open_dataset"]
  /\ UNCHANGED extraction
  /\ LoaderOnly

\* db_salinity = ovp.LoadDataset(SALINITY_URL)
LoadDataset ==
  /\ loader.pc = "open_dataset"
  /\ \E open \in OpenOutcomes :
       LET l == [loader EXCEPT !.opens = @ + 1]
       IN  loader' =
             IF open.raises # None
             THEN ExitOnError(l, Exc(open.raises, <<"LoadDataset failed">>,
                                     NoExc))
             ELSE [l EXCEPT !.db = LoaderHandle, !.pc = "first_timestep"]
  /\ UNCHANGED extraction
  /\ LoaderOnly

\* the first timestep is loaded to determine the shape
LoadFirstTimestep ==
  /\ loader.pc = "first_timestep"
  /\ \E outcome \in ReadOutcomes :
       LET e == ExtractTimestep(loader, 0, outcome)
           l == [loader EXCEPT !.invoked = Append(@, 0)]
       IN  /\ extraction' = e
           /\ loader' =
                IF e.raised.type # None THEN ExitOnError(l, e.raised)
                ELSE LoopNext(
                       [l EXCEPT !.first_data = e.data, !.lat = e.lat,
                                 !.lon = e.lon,
                                 !.expected_shape =
                                   <<NUMBER_OF_TIME_STEPS, e.data.shape[1],
                                     e.data.shape[2], e.data.shape[3]>>,
                                 !.pc = "loop"])
  /\ LoaderOnly

\* the body of the loop over the timesteps
LoadTimestep ==
  /\ loader.pc = "loop"
  /\ \E outcome \in ReadOutcomes :
       LET e == ExtractTimestep(loader, loader.t, outcome)
           l == [loader EXCEPT !.invoked = Append(@, loader.t)]
       IN  /\ extraction' = e
           /\ loader' =
                IF e.raised.type # None
                THEN LoopNext(ExitOnError(l, e.raised))
                ELSE LoopNext([l EXCEPT !.timesteps = Append(@, e.data),
                                        !.t = @ + 1])
  /\ LoaderOnly

\* data = np.stack(timesteps, axis=0), returned to __main__
StackTimesteps ==
  /\ loader.pc = "stack"
  /\ LET stacked == Stack(loader.timesteps)
     IN  loader' =
           IF stacked.raised.type # None
           THEN ExitOnError(loader, stacked.raised)
           ELSE [loader EXCEPT !.data = stacked.data, !.pc = "save"]
  /\ UNCHANGED extraction
  /\ LoaderOnly

\* save_data(data, lat, lon), then the script ends
SaveData ==
  /\ loader.pc = "save"
  /\ loader' =
       [loader EXCEPT
          !.outputs = [f \in OutputFiles |->
                         CASE f = "salinity_data.npy" -> loader.data
                           [] f = "salinity_lat.npy" -> loader.lat
                           [] f = "salinity_lon.npy" -> loader.lon],
          !.written = <<"salinity_data.npy", "salinity_lat.npy",
                        "salinity_lon.npy">>,
          !.pc = "exited", !.exit_code = 0]
  /\ UNCHANGED extraction
  /\ LoaderOnly

\* except KeyboardInterrupt: sys.exit(1)
Interrupted ==
  /\ loader.pc # "exited"
  /\ loader' = [loader EXCEPT !.pc = "exited", !.exit_code = 1,
                              !.raised = Exc("KeyboardInterrupt", << >>,
                                             NoExc)]
  /\ UNCHANGED extraction
  /\ LoaderOnly

NextLoader ==
  \/ LoadCoordinateArrays
  \/ LoadDataset
  \/ LoadFirstTimestep
  \/ LoadTimestep
  \/ StackTimesteps
  \/ SaveData
  \/ Interrupted

SpecLoader == InitLoader /\ [][NextLoader]_vars

\* the script ended normally
LoaderSucceeded == loader.pc = "exited" /\ loader.exit_code = 0

\* the step invokes the reader, and the read it issues raises
ReadFailsInStep ==
  /\ Len(loader'.invoked) = Len(loader.invoked) + 1
  /\ extraction'.reads # << >>
  /\ IsNone(extraction'.data)

\* the step writes an output file
WritesOutput ==
  loader'.outputs # loader.outputs \/ loader'.written # loader.written

\* C12 as stated: in a successful run one dataset handle is opened and the
\* reader is invoked exactly once for each timestep of [0, N), in ascending
\* order.
C12_EachTimestepReadOnce ==
  LoaderSucceeded =>
    /\ loader.opens = 1
    /\ loader.invoked = [k \in 1..NUMBER_OF_TIME_STEPS |-> k - 1]

\* C13: if the read of a timestep fails the run aborts there: the script
\* exits with code 1, nothing is read afterwards, the timestep is not
\* retried and no output file is written or overwritten; output files are
\* written only after all N timesteps have been read.
C13_FailedReadAborts ==
  [][/\ loader.pc = "exited" => loader' = loader
     /\ ReadFailsInStep =>
          /\ loader'.pc = "exited"
          /\ loader'.exit_code = 1
          /\ loader'.raised.type = "RuntimeError"
          /\ loader'.outputs = loader.outputs
          /\ loader'.written = << >>
     /\ WritesOutput =>
          /\ Len(loader.timesteps) = NUMBER_OF_TIME_STEPS
          /\ loader.raised.type = None
          /\ \A t \in 0..(NUMBER_OF_TIME_STEPS - 1) :
               \E k \in DOMAIN loader.invoked : loader.invoked[k] = t]_vars

\* the read of the second timestep of the loop failed after the first was
\* loaded: the files of an earlier run are as they were
C13_Witness ==
  /\ loader.pc = "exited"
  /\ loader.exit_code = 1
  /\ loader.raised.type = "RuntimeError"
  /\ loader.raised.msg[2] = 1
  /\ Len(loader.timesteps) = 1
  /\ loader.invoked = <<0, 0, 1>>
  /\ loader.written = << >>
  /\ \A f \in OutputFiles : loader.outputs[f] = Stale

\* C14 as stated: a stacked array has the shape (N, depth, height, width)
\* taken from the first loaded timestep, and nothing is saved when a later
\* timestep's array has another shape.
C14_StackedShapeAsExpected ==
  /\ ~IsNone(loader.data) => loader.data.shape = loader.expected_shape
  /\ loader.written # << >> =>
       \A k \in DOMAIN loader.timesteps :
         loader.timesteps[k].shape = loader.first_data.shape

(***************************************************************************)
(* What a client does with a "base64" payload:                             *)
(* np.frombuffer(base64.b64decode(data), dtype="<f4").reshape(shape).      *)
(***************************************************************************)
\* base64.b64decode(chars)
B64Decode(chars) ==
  LET pads   == Cardinality({i \in DOMAIN chars : chars[i] = "="})
      n      == 3 * (Len(chars) \div 4) - pads
      six(i) == IF chars[i] = "=" THEN 0
                ELSE IndexOf(chars[i], Base64Alphabet) - 1
      word(g) == six(4 * g - 3) * 262144 + six(4 * g - 2) * 4096
                   + six(4 * g - 1) * 64 + six(4 * g)
  IN  [i \in 1..n |->
         (word(((i - 1) \div 3) + 1) \div Pow2(8 * (2 - ((i - 1) % 3)))) % 256]

\* the whole number whose binary32 pattern is `bits`; a pattern of a
\* negative number, a fraction or a magnitude of 2^24 and more, none of
\* which the store holds, reads as -1
Float32Value(bits) ==
  LET e == (bits \div 8388608) - 127
      m == bits % 8388608
  IN  IF bits = 0 THEN 0
      ELSE IF e \in 0..23 /\ m % Pow2(23 - e) = 0
           THEN Pow2(e) + (m \div Pow2(23 - e))
           ELSE -1

\* np.frombuffer(bytes, dtype="<f4")
FromBuffer(bytes) ==
  [k \in 1..(Len(bytes) \div 4) |->
     Float32Value(bytes[4 * k - 3] + bytes[4 * k - 2] * 256
                    + bytes[4 * k - 1] * 65536 + bytes[4 * k] * 16777216)]

\* the array the method serialized in the request last answered
ReturnedArray ==
  IF response.route = SliceRoute THEN DataSlice(extraction.data)
  ELSE TimestepData(extraction.data)

\* the request last answered returned an array as base64
Base64Answer ==
  /\ response.route \in {SliceRoute, TimestepRoute}
  /\ response.status = 200
  /\ response.result.data.format = "base64"

\* C15: the base64 payload of a slice or timestep answer, decoded as
\* float32 values and reshaped to the declared shape, is the nested list
\* the "array" format gives for the same array, element for element, and
\* the declared shape is the shape field of the response.
C15_Base64RoundTrip ==
  Base64Answer =>
    LET payload == response.result.data
    IN  /\ payload.dtype = "float32"
        /\ payload.shape = response.result.shape
        /\ Len(FromBuffer(B64Decode(payload.data))) = Product(payload.shape)
        /\ Nested(payload.shape, FromBuffer(B64Decode(payload.data)))
             = Serialize(ReturnedArray, array).data

\* a timestep answer of shape (1, 2, 2) holding four different values
C15_Witness ==
  /\ Base64Answer
  /\ response.route = TimestepRoute
  /\ response.result.shape = <<1, 2, 2>>
  /\ Cardinality(Range(FromBuffer(B64Decode(response.result.data.data)))) = 4
  /\ Nested(response.result.shape,
            FromBuffer(B64Decode(response.result.data.data)))
       = ToList(TimestepData(extraction.data))

(***************************************************************************)
(* SpecRace: requests served by threads of one process, inside             *)
(* DataService._get_dataset at the same time.  The method takes no lock;   *)
(* a thread may be suspended between any two of its statements.  Each step *)
(* is one statement of one thread on the shared instance.                  *)
(***************************************************************************)
Threads == 1..MaxThreads

Idle ==
  [pc |-> "idle", field |-> << >>, field_lower |-> << >>,
   dataset |-> NoHandle, raised |-> NoExc, calls |-> 0]

RaceFields == {salt, <<"S", "a", "l", "t">>, theta, <<"x">>}

InitRace ==
  /\ latlon_file \in FileStates
  /\ _lat_center = NoArray
  /\ _lon_center = NoArray
  /\ _datasets = << >>
  /\ opened = 0
  /\ open_calls = << >>
  /\ file_reads = 0
  /\ extraction = NotCalled
  /\ response = NoResponse
  /\ last_slice = NoSlice
  /\ nreq = 0
  /\ loader = NotStarted
  /\ threads = [t \in Threads |-> Idle]

RaceOnly ==
  UNCHANGED <<latlon_file, _lat_center, _lon_center, file_reads, extraction,
              response, last_slice, nreq, loader>>

CallsMade ==
  LET RECURSIVE Sum(_)
      Sum(n) == IF n = 0 THEN 0 ELSE threads[n].calls + Sum(n - 1)
  IN  Sum(MaxThreads)

\* the lookup finding no entry whatever the cache holds
CacheHitNever(datasets, field_lower) == FALSE

\* if field_lower in self._datasets
CacheHit(datasets, field_lower) == field_lower \in DOMAIN datasets

\* a thread enters the method: field_lower = field.lower(), and the
\* ValueError for a name that is no key of FIELD_URLS
Call(t) ==
  /\ CallsMade < MaxCalls
  /\ threads[t].pc \in {"idle", "returned", "raised"}
  /\ \E field \in RaceFields :
       threads' =
         [threads EXCEPT ![t] =
            [pc |-> IF Lower(field) \in DOMAIN FIELD_URLS
                    THEN "check" ELSE "raised",
             field |-> field, field_lower |-> Lower(field),
             dataset |-> NoHandle,
             raised |-> IF Lower(field) \in DOMAIN FIELD_URLS THEN NoExc
                        ELSE Exc("ValueError",
                                 <<"Unknown field:", field,
                                   "Available fields:", FieldKeys>>, NoExc),
             calls |-> @.calls + 1]]
  /\ UNCHANGED <<_datasets, opened, open_calls>>
  /\ RaceOnly

\* the membership test on the cache
CheckCache(t) ==
  /\ threads[t].pc = "check"
  /\ threads' =
       [threads EXCEPT ![t].pc =
          IF CacheHit(_datasets, threads[t].field_lower)
          THEN "hit" ELSE "open"]
  /\ UNCHANGED <<_datasets, opened, open_calls>>
  /\ RaceOnly

\* return self._datasets[field_lower]
ReturnCached(t) ==
  /\ threads[t].pc = "hit"
  /\ threads' =
       [threads EXCEPT ![t].pc = "returned",
                       ![t].dataset = _datasets[threads[t].field_lower]]
  /\ UNCHANGED <<_datasets, opened, open_calls>>
  /\ RaceOnly

\* url = FIELD_URLS[field_lower]; dataset = ovp.LoadDataset(url)
OpenDataset(t) ==
  /\ threads[t].pc = "open"
  /\ open_calls' =
       [k \in DOMAIN open_calls \cup {threads[t].field_lower} |->
          IF k = threads[t].field_lower
          THEN Count(open_calls, k) + 1 ELSE open_calls[k]]
  /\ \E open \in OpenOutcomes :
       IF open.raises # None
       THEN /\ threads' =
                 [threads EXCEPT ![t].pc = "raised",
                                 ![t].raised =
                                   Exc(open.raises, <<"LoadDataset failed">>,
                                       NoExc)]
            /\ opened' = opened
       ELSE /\ threads' =
                 [threads EXCEPT ![t].pc = "store",
                                 ![t].dataset =
                                   [id |-> opened + 1,
                                    url |-> FIELD_URLS[threads[t].field_lower]]]
            /\ opened' = opened + 1
  /\ UNCHANGED _datasets
  /\ RaceOnly

\* self._datasets[field_lower] = dataset; return dataset
StoreDataset(t) ==
  /\ threads[t].pc = "store"
  /\ _datasets' =
       CacheStore(_datasets, threads[t].field_lower, threads[t].dataset)
  /\ threads' = [threads EXCEPT ![t].pc = "returned"]
  /\ UNCHANGED <<opened, open_calls>>
  /\ RaceOnly

NextRace ==
  \E t \in Threads :
    \/ Call(t)
    \/ CheckCache(t)
    \/ ReturnCached(t)
    \/ OpenDataset(t)
    \/ StoreDataset(t)

SpecRace == InitRace /\ [][NextRace]_vars

\* no thread is inside the method
AllFinished ==
  \A t \in Threads : threads[t].pc \in {"idle", "returned", "raised"}

\* every call that returned did so with a handle of the URL of its field
ReturnedHandlesCorrect ==
  \A t \in Threads :
    threads[t].pc = "returned" =>
      /\ Lower(threads[t].field) \in DOMAIN FIELD_URLS
      /\ threads[t].dataset.url = FIELD_URLS[Lower(threads[t].field)]

\* once all calls have finished, a name some call returned a handle for
\* has one entry, under the normalized name, and it is a handle of its URL
OneEntryPerName ==
  AllFinished =>
    \A t \in Threads :
      threads[t].pc = "returned" =>
        LET k == Lower(threads[t].field)
        IN  /\ {j \in DOMAIN _datasets : Lower(j) = k} = {k}
            /\ _datasets[k].url = FIELD_URLS[k]

\* a call that tests the cache when the name has an entry opens nothing
\* and returns the entry
LaterCallsReuse ==
  \A t \in Threads :
    /\ (/\ threads[t].pc = "check"
        /\ threads[t].field_lower \in DOMAIN _datasets
        /\ threads'[t] # threads[t])
         => threads'[t].pc = "hit" /\ open_calls' = open_calls
    /\ (threads[t].pc = "hit" /\ threads'[t] # threads[t])
         => /\ threads'[t].pc = "returned"
            /\ threads'[t].dataset = _datasets'[threads[t].field_lower]
            /\ open_calls' = open_calls /\ _datasets' = _datasets

\* a thread's open raises while another thread is past the cache test for
\* the same name
RacingOpenRaises(t) ==
  /\ threads[t].pc = "open"
  /\ threads'[t].pc = "raised"
  /\ \E u \in Threads \ {t} :
       /\ threads[u].pc \in {"open", "store"}
       /\ threads[u].field_lower = threads[t].field_lower

\* an open that raises ends the call with the error of the open and leaves
\* the cache as it was
FailedOpenStoresNothing ==
  \A t \in Threads :
    (threads[t].pc = "open" /\ threads'[t].pc = "raised") =>
      /\ threads'[t].raised.type = "OSError"
      /\ _datasets' = _datasets

\* C16 (as stated): requests for one unopened field that interleave inside
\* the handle lookup each complete with a handle of the URL of the field,
\* and once all have finished the cache holds one entry for the name, which
\* later requests reuse.
C16_EveryRacingRequestGetsHandle ==
  [][/\ ReturnedHandlesCorrect' /\ OneEntryPerName' /\ LaterCallsReuse
     /\ \A t \in Threads : ~RacingOpenRaises(t)]_vars

\* C16: requests for one unopened field that interleave inside the handle
\* lookup may each invoke the external open; every one whose open returns
\* completes with a handle of the URL of its field, one whose open raises
\* ends with that error and stores nothing; once all have finished, a name
\* some call returned a handle for has one entry under the normalized name,
\* and a call made after that returns this entry without opening.
C16_RaceKeepsOneEntry ==
  [][/\ ReturnedHandlesCorrect' /\ OneEntryPerName' /\ LaterCallsReuse
     /\ FailedOpenStoresNothing]_vars

\* two calls for the same field both opened; the cache holds one entry, the
\* handle one of them got is no longer cached, and a later call returned
\* the cached one
C16_Witness ==
  /\ AllFinished
  /\ Count(open_calls, salt) = 2
  /\ DOMAIN _datasets = {salt}
  /\ \E t1, t2 \in Threads :
       /\ threads[t1].calls = 2 /\ threads[t1].pc = "returned"
       /\ threads[t1].field_lower = salt
       /\ threads[t1].dataset = _datasets[salt]
       /\ threads[t2].calls = 1 /\ threads[t2].pc = "returned"
       /\ threads[t2].field_lower = salt
       /\ threads[t2].dataset.id # _datasets[salt].id

(***************************************************************************)
(* Spec: what a failing request leaves behind.                             *)
(***************************************************************************)
\* the request answered in this step failed
RequestFailed == Served /\ response'.status # 200

\* a route that takes a field name
FieldRoutes == {MetadataRoute, SliceRoute, TimestepRoute}

\* the ovp.LoadDataset of the request answered in this step raised
OpenFailed ==
  /\ RequestFailed
  /\ response'.route \in FieldRoutes
  /\ response'.opens = 1
  /\ response'.raised = "OSError"
  /\ extraction'.reads = << >>

\* the request answered in this step failed for an unknown field, an empty
\* region or a read that raised
RefusedOrReadFailed ==
  /\ RequestFailed
  /\ response'.route \in FieldRoutes
  /\ \/ response'.raised = "ValueError"
     \/ extraction'.reads # << >>

\* C17: a failing service request never damages the caches.  A failed open
\* adds no entry for the field and changes no other, so the next request
\* that looks the field up invokes the open again; an unknown field, an
\* empty region or a failed read leaves every existing handle entry and the
\* loaded coordinate grid as they were.
C17_FailureKeepsCaches ==
  [][/\ RequestFailed =>
          /\ \A k \in DOMAIN _datasets :
               k \in DOMAIN _datasets' /\ _datasets'[k] = _datasets[k]
          /\ GridLoaded(_lat_center, _lon_center) =>
               _lat_center' = _lat_center /\ _lon_center' = _lon_center
     /\ OpenFailed =>
          /\ _datasets' = _datasets
          /\ RequestedName(response') \notin DOMAIN _datasets'
     /\ RefusedOrReadFailed =>
          DOMAIN _datasets' \subseteq
            DOMAIN _datasets \cup {RequestedName(response')}
     /\ (/\ Served
         /\ response'.route = MetadataRoute
         /\ RequestedName(response') \in DOMAIN FIELD_URLS
         /\ RequestedName(response') \notin DOMAIN _datasets) =>
          response'.opens = 1]_vars

\* after a slice that cached a handle and loaded the grid, the open of a
\* request for another name raised: the entry and the grid are still there
\* and the name has no entry
C17_Witness ==
  /\ nreq = 2
  /\ response.status = 500
  /\ response.raised = "OSError"
  /\ response.opens = 1
  /\ extraction.reads = << >>
  /\ DOMAIN _datasets = {salt}
  /\ RequestedName(response) = salinity
  /\ GridLoaded(_lat_center, _lon_center)

(***************************************************************************)
(* Spec: the coordinate file missing.                                      *)
(***************************************************************************)
\* a metadata request leaves the coordinate slots as they are, opens no
\* coordinate file and issues no read
MetadataTouchesOnlyHandles ==
  (Served /\ response'.route = MetadataRoute) =>
    /\ _lat_center' = _lat_center
    /\ _lon_center' = _lon_center
    /\ file_reads' = file_reads
    /\ extraction'.reads = << >>
    /\ ~extraction'.call.called

\* a metadata request for a known field succeeds if its open, when there
\* is one, returns: the coordinate file is not looked at
MetadataSucceedsWithoutFile ==
  (/\ Served
   /\ response'.route = MetadataRoute
   /\ RequestedName(response') \in DOMAIN FIELD_URLS
   /\ response'.raised # "OSError") =>
    /\ response'.status = 200
    /\ response'.result.available_fields = FieldKeys

\* the parameters of the slice or timestep request all convert
ParametersConvert(r) ==
  IF r.route = SliceRoute THEN SliceParametersRaised(r.args).type = None
  ELSE TimestepParametersRaised(r.args).type = None

\* the answer for the missing coordinate file: HTTP 500 from the
\* FileNotFoundError, with no handle opened and no read issued
MissingFileError ==
  /\ response'.status = 500
  /\ response'.raised = "FileNotFoundError"
  /\ response'.opens = 0
  /\ response'.file_opened = 0
  /\ extraction'.reads = << >>
  /\ _datasets' = _datasets

\* a slice or timestep request, with parameters that convert, answered in
\* this step while the coordinate file is missing
RegionRequestWithoutFile ==
  /\ Served
  /\ response'.route \in {SliceRoute, TimestepRoute}
  /\ ParametersConvert(response')
  /\ ~latlon_file.exists

\* C18 (as stated): get_metadata touches only the handle cache and succeeds
\* for a known field with the coordinate file missing, whereas slice and
\* timestep requests made while the file is missing fail with the
\* missing-file error before any handle is opened or any read is issued.
C18_RegionRequestsFailWithoutFile ==
  [][/\ MetadataTouchesOnlyHandles
     /\ MetadataSucceedsWithoutFile
     /\ RegionRequestWithoutFile => MissingFileError]_vars

\* C18: get_metadata touches only the handle cache and succeeds for a known
\* field whose open returns, also with the coordinate file missing, whereas
\* slice and timestep requests made while the file is missing and the grid
\* has not been loaded fail with the missing-file error before any handle
\* is opened or any read is issued.
C18_MetadataNeedsNoGrid ==
  [][/\ MetadataTouchesOnlyHandles
     /\ MetadataSucceedsWithoutFile
     /\ (/\ RegionRequestWithoutFile
         /\ ~GridLoaded(_lat_center, _lon_center)) => MissingFileError]_vars

\* with the coordinate file missing and the grid never loaded, a metadata
\* request has cached a handle and the slice request after it is refused
\* for the missing file
C18_Witness ==
  /\ nreq = 2
  /\ ~latlon_file.exists
  /\ file_reads = 0
  /\ ~GridLoaded(_lat_center, _lon_center)
  /\ DOMAIN _datasets = {salinity}
  /\ opened = 1
  /\ response.route = SliceRoute
  /\ response.status = 500
  /\ response.raised = "FileNotFoundError"
  /\ response.opens = 0

====
